---------------------------- MODULE Spec2Model ----------------------------
(***************************************************************************)
(* A model of bills.go: a batch program that reads dated costs from a CSV  *)
(* file, drops the ones older than a cutoff, totals them per source and    *)
(* logs a report.                                                          *)
(*                                                                         *)
(* Text is modelled as sequences of one-character strings, so that         *)
(* splitting, date and amount parsing and formatting are computed.         *)
(* Machine integers wider than TLC's are little-endian sequences of        *)
(* base-256 limbs in two's complement, so that Go's wrapping int and       *)
(* time.Duration arithmetic keeps its 64-bit width.                        *)
(***************************************************************************)
EXTENDS Integers, Sequences, FiniteSets, TLC

(***************************************************************************)
(* Fixed-width two's complement arithmetic on limb sequences.              *)
(***************************************************************************)
RECURSIVE NatLimbs(_, _)
NatLimbs(v, n) ==
    IF n = 0 THEN <<>> ELSE <<v % 256>> \o NatLimbs(v \div 256, n - 1)

RECURSIVE AddC(_, _, _)
AddC(a, b, c) ==
    IF a = <<>> THEN <<>>
    ELSE LET s == Head(a) + Head(b) + c
         IN  <<s % 256>> \o AddC(Tail(a), Tail(b), s \div 256)

NotL(a) == [i \in DOMAIN a |-> 255 - a[i]]

ZeroL(n) == [i \in 1..n |-> 0]

NegL(a) == AddC(NotL(a), ZeroL(Len(a)), 1)

SubL(a, b) == AddC(a, NotL(b), 1)

RECURSIVE ScaleL(_, _, _)
ScaleL(b, k, c) ==
    IF b = <<>> THEN <<>>
    ELSE LET s == Head(b) * k + c
         IN  <<s % 256>> \o ScaleL(Tail(b), k, s \div 256)

\* a * b modulo 256^Len(a); a and b have the same length
RECURSIVE MulL(_, _)
MulL(a, b) ==
    IF a = <<>> THEN <<>>
    ELSE LET n == Len(a)
         IN  AddC(ScaleL(b, Head(a), 0),
                  <<0>> \o MulL(Tail(a), SubSeq(b, 1, n - 1)), 0)

IsNegL(a) == a[Len(a)] >= 128

RECURSIVE ULessL(_, _)
ULessL(a, b) ==
    IF a = <<>> THEN FALSE
    ELSE LET n == Len(a)
         IN  IF a[n] # b[n] THEN a[n] < b[n]
             ELSE ULessL(SubSeq(a, 1, n - 1), SubSeq(b, 1, n - 1))

LessL(a, b) == IF IsNegL(a) # IsNegL(b) THEN IsNegL(a) ELSE ULessL(a, b)

SignExtend(a, n) ==
    a \o [i \in 1..(n - Len(a)) |-> IF IsNegL(a) THEN 255 ELSE 0]

IntLimbs(v, n) == IF v >= 0 THEN NatLimbs(v, n) ELSE NegL(NatLimbs(-v, n))

\* Go's int and int64 (time.Duration) on a 64-bit build: 8 limbs
Int64(v) == IntLimbs(v, 8)

\* time.Time holds seconds in an int64 and nanoseconds beside it: instants are
\* nanoseconds since the Unix epoch in 12 limbs, wide enough never to wrap
TimeWide(v) == IntLimbs(v, 12)

\* time.Hour = 60 * 60 * 1e9 nanoseconds
Hour == MulL(Int64(3600), Int64(1000000000))

(***************************************************************************)
(* Calendar: days since 1970-01-01 of a proleptic Gregorian date and back. *)
(***************************************************************************)
IsLeap(y) == (y % 4 = 0 /\ y % 100 # 0) \/ y % 400 = 0

DaysIn(m, y) ==
    IF m = 2 THEN (IF IsLeap(y) THEN 29 ELSE 28)
    ELSE IF m \in {4, 6, 9, 11} THEN 30 ELSE 31

DaysFromCivil(y, m, d) ==
    LET yy  == IF m <= 2 THEN y - 1 ELSE y
        era == yy \div 400
        yoe == yy - era * 400
        mp  == IF m > 2 THEN m - 3 ELSE m + 9
        doy == (153 * mp + 2) \div 5 + d - 1
        doe == yoe * 365 + yoe \div 4 - yoe \div 100 + doy
    IN  era * 146097 + doe - 719468

CivilFromDays(z) ==
    LET zz  == z + 719468
        era == zz \div 146097
        doe == zz - era * 146097
        yoe == (doe - doe \div 1460 + doe \div 36524 - doe \div 146096) \div 365
        doy == doe - (365 * yoe + yoe \div 4 - yoe \div 100)
        mp  == (5 * doy + 2) \div 153
        d   == doy - (153 * mp + 2) \div 5 + 1
        m   == IF mp < 10 THEN mp + 3 ELSE mp - 9
        y   == yoe + era * 400 + (IF m <= 2 THEN 1 ELSE 0)
    IN  [y |-> y, m |-> m, d |-> d]

(***************************************************************************)
(* Text.                                                                   *)
(***************************************************************************)
DigitChars == <<"0", "1", "2", "3", "4", "5", "6", "7", "8", "9">>

IsDigit(c) == \E i \in 1..10 : DigitChars[i] = c

DigitVal(c) == (CHOOSE i \in 1..10 : DigitChars[i] = c) - 1

AllDigits(s) == \A i \in DOMAIN s : IsDigit(s[i])

RECURSIVE Atoi(_)
Atoi(s) ==
    IF s = <<>> THEN 0
    ELSE Atoi(SubSeq(s, 1, Len(s) - 1)) * 10 + DigitVal(s[Len(s)])

\* v >= 0 in decimal, left-padded with zeros to at least w digits
RECURSIVE Itoa(_, _)
Itoa(v, w) ==
    IF v < 10 /\ w <= 1 THEN <<DigitChars[v + 1]>>
    ELSE Itoa(v \div 10, w - 1) \o <<DigitChars[(v % 10) + 1]>>

\* strings.Split(line, ","): always at least one piece
RECURSIVE Split(_)
Split(s) ==
    IF \A i \in DOMAIN s : s[i] # "," THEN <<s>>
    ELSE LET k == CHOOSE i \in DOMAIN s :
                      s[i] = "," /\ \A j \in 1..(i - 1) : s[j] # ","
         IN  <<SubSeq(s, 1, k - 1)>> \o Split(SubSeq(s, k + 1, Len(s)))


RECURSIVE Join(_, _)
Join(fields, sep) ==
    IF Len(fields) = 0 THEN <<>>
    ELSE IF Len(fields) = 1 THEN fields[1]
    ELSE fields[1] \o sep \o Join(Tail(fields), sep)

\* time.ParseInLocation("2006-01-02", date, location): four digits, two
\* digits, two digits, a month of the year and a day of that month. The
\* instant is midnight of the date at the location's offset, in hours since
\* the Unix epoch (the offsets modelled are whole hours).
ParseInLocation(date, offset) ==
    IF /\ Len(date) = 10
       /\ date[5] = "-" /\ date[8] = "-"
       /\ AllDigits(SubSeq(date, 1, 4))
       /\ AllDigits(SubSeq(date, 6, 7))
       /\ AllDigits(SubSeq(date, 9, 10))
    THEN LET y == Atoi(SubSeq(date, 1, 4))
             m == Atoi(SubSeq(date, 6, 7))
             d == Atoi(SubSeq(date, 9, 10))
         IN  IF m >= 1 /\ m <= 12 /\ d >= 1 /\ d <= DaysIn(m, y)
             THEN [ok |-> TRUE, time |-> DaysFromCivil(y, m, d) * 24 - offset]
             ELSE [ok |-> FALSE, time |-> 0]
    ELSE [ok |-> FALSE, time |-> 0]

\* Time.Format("2006-01-02") of an instant (hours since the epoch) at the
\* location's offset
FormatDate(t, offset) ==
    LET c == CivilFromDays((t + offset) \div 24)
    IN  Itoa(c.y, 4) \o <<"-">> \o Itoa(c.m, 2) \o <<"-">> \o Itoa(c.d, 2)

\* strconv.ParseFloat(amount, 64) on plain decimal text: an optional sign,
\* digits, an optional point and digits, at least one digit in all. The value
\* is exact, in hundredths: text with more than two decimals (like exponents,
\* "inf" and hexadecimal forms) is outside the model and no input drawn has it.
ParseFloat(amount) ==
    LET signed == Len(amount) > 0 /\ amount[1] \in {"-", "+"}
        body   == IF signed THEN Tail(amount) ELSE amount
        dots   == {i \in DOMAIN body : body[i] = "."}
        k      == IF dots = {} THEN Len(body) + 1
                  ELSE CHOOSE i \in dots : \A j \in dots : i <= j
        ip     == SubSeq(body, 1, k - 1)
        fp     == SubSeq(body, k + 1, Len(body))
        fp2    == SubSeq(fp \o <<"0", "0">>, 1, 2)
    IN  IF /\ AllDigits(ip) /\ AllDigits(fp)
           /\ Len(ip) + Len(fp) > 0
           /\ Len(fp) <= 2
        THEN LET v == Atoi(ip) * 100 + Atoi(fp2)
             IN  [ok |-> TRUE,
                  val |-> IF signed /\ amount[1] = "-" THEN -v ELSE v]
        ELSE [ok |-> FALSE, val |-> 0]

\* fmt's %.2f of an exact amount in hundredths
FormatAmount(v) ==
    LET a == IF v < 0 THEN -v ELSE v
    IN  (IF v < 0 THEN <<"-">> ELSE <<>>)
            \o Itoa(a \div 100, 1) \o <<".">> \o Itoa(a % 100, 2)


(***************************************************************************)
(* Bounds of the model.                                                    *)
(***************************************************************************)
\* longest input file, in lines
MaxLines == 3

\* largest small --days-back drawn (the values at the edge of int64 are
\* drawn beside them)
MaxDaysBack == 2

\* how many times the program is run on the same input
MaxRuns == 2

(***************************************************************************)
(* State.                                                                  *)
(***************************************************************************)
VARIABLES
    csv,              \* --csv
    locationString,   \* --location
    daysBack,         \* --days-back
    lines,            \* the lines of the file at path costs.csv
    readErrAt,        \* k > 0: the k-th read of the file fails
    now,              \* time.Now(), hours since the Unix epoch
    runNo,            \* which run of the program this is
    prevOut,          \* what the previous run logged
    pc,               \* where the run is
    location,         \* the loaded location's UTC offset, hours
    filterDuration,   \* main's filterDuration, an int64 of nanoseconds
    filterTime,       \* readCostsCSV's filterTime, wide nanoseconds
    idx,              \* lines the scanner has delivered
    costs,            \* the costs slice
    sourceToAmount,   \* main's sourceToAmount
    total,            \* main's total
    groupedCosts,     \* reportCosts's groupedCosts
    out,              \* the lines logged so far
    exitCode          \* the process's exit status, -1 while it runs

inputs == <<csv, locationString, daysBack, lines, readErrAt, now>>

run == <<pc, location, filterDuration, filterTime, idx, costs,
         sourceToAmount, total, groupedCosts, out, exitCode>>

vars == <<inputs, runNo, prevOut, run>>

(***************************************************************************)
(* The program.                                                            *)
(***************************************************************************)
\* one logged line: the call that logged it, its format and its argument
Log(kind, fmt, arg) == [kind |-> kind, fmt |-> fmt, arg |-> arg]

\* time.LoadLocation for the zones drawn, as the UTC offset in force on the
\* dates drawn (late February and early March 2024: standard time)
Zones == [UTC |-> 0]
         @@ ("America/Vancouver" :> -8)
         @@ ("Asia/Tokyo" :> 9)

\* os.Open succeeds on the one file there is
FileExists(path) == path = "costs.csv"

\* time.Duration(*daysBack*24) * time.Hour: an int product, then an int64
\* product, each wrapping at 64 bits
FilterDurationOf(n) == MulL(MulL(Int64(n), Int64(24)), Hour)

\* the instant t (hours since the epoch) in wide nanoseconds
TimeNs(t) == MulL(TimeWide(t), SignExtend(Hour, 12))

\* time.Now().Truncate(24 * time.Hour).Add(-filterDuration): Truncate rounds
\* the absolute time down, to midnight UTC
FilterTimeOf(t, d) == SubL(TimeNs(t - (t % 24)), SignExtend(d, 12))

\* costTime.Before(filterTime)
Before(t, ft) == LessL(TimeNs(t), ft)

\* a variant that lets lines with extra fields through
FieldCountOK_AtLeast(pieces) == Len(pieces) >= 4

\* len(pieces) != 4 is an error
FieldCountOK(pieces) == Len(pieces) = 4

\* Cost.String
CostString(c, offset) ==
    FormatDate(c.Time, offset) \o <<" ">> \o c.Source \o <<":", " ">>
        \o FormatAmount(c.Amount)

\* GroupedCost.String
GroupedCostString(g) == g.Name \o <<":", " ">> \o FormatAmount(g.Amount)

\* CostByTime.Less
CostLess(a, b) == a.Time < b.Time

\* a variant with the comparison turned round
GroupedLess_Ascending(a, b) == a.Amount < b.Amount

\* GroupedCostByAmount.Less
GroupedLess(a, b) == a.Amount > b.Amount

RECURSIVE getTotal(_)
getTotal(cs) ==
    IF cs = <<>> THEN 0 ELSE Head(cs).Amount + getTotal(Tail(cs))

\* a variant of the loop of tallyCosts that stores the amount instead of
\* adding it
RECURSIVE tallyInto_Overwrite(_, _)
tallyInto_Overwrite(m, cs) ==
    IF cs = <<>> THEN m
    ELSE LET c  == Head(cs)
             m1 == IF c.Source \in DOMAIN m THEN m
                   ELSE m @@ (c.Source :> [Name |-> c.Source, Amount |-> 0])
         IN  tallyInto_Overwrite(
                 [m1 EXCEPT ![c.Source] =
                      [Name |-> c.Source, Amount |-> c.Amount]],
                 Tail(cs))

\* the loop of tallyCosts, from the map built so far
RECURSIVE tallyInto(_, _)
tallyInto(m, cs) ==
    IF cs = <<>> THEN m
    ELSE LET c  == Head(cs)
             m1 == IF c.Source \in DOMAIN m THEN m
                   ELSE m @@ (c.Source :> [Name |-> c.Source, Amount |-> 0])
         IN  tallyInto(
                 [m1 EXCEPT ![c.Source] =
                      [Name |-> c.Source,
                       Amount |-> m1[c.Source].Amount + c.Amount]],
                 Tail(cs))

\* tallyCosts with the storing loop
tallyCosts_Overwrite(cs) == tallyInto_Overwrite(<<>>, cs)

\* tallyCosts: the loop from the empty map
tallyCosts(cs) == tallyInto(<<>>, cs)

\* the orders a Go map can be ranged over: every order of its entries
MapRangeOrders(m) ==
    LET n == Cardinality(DOMAIN m)
    IN  {[i \in 1..n |-> m[ks[i]]] :
            ks \in {f \in [1..n -> DOMAIN m] :
                       \A i, j \in 1..n : i # j => f[i] # f[j]}}

\* every arrangement of the sequence s
Arrangements(s) ==
    LET n == Len(s)
    IN  {[i \in 1..n |-> s[f[i]]] :
            f \in {g \in [1..n -> 1..n] :
                      \A i, j \in 1..n : i # j => g[i] # g[j]}}

\* sort.Sort(CostByTime(costs)). sort.Sort is not stable: its result is some
\* arrangement in which no element is Less than one before it
SortCostByTime(s) ==
    {p \in Arrangements(s) :
        \A i, j \in 1..Len(s) : i < j => ~CostLess(p[j], p[i])}

\* sort.Sort(GroupedCostByAmount(groupedCosts))
SortGroupedCostByAmount(s) ==
    {p \in Arrangements(s) :
        \A i, j \in 1..Len(s) : i < j => ~GroupedLess(p[j], p[i])}

\* what reportCosts logs
ReportLines(cs, tot, gs, offset) ==
    <<Log("header", "Costs:", <<>>)>>
    \o [i \in 1..Len(cs) |-> Log("cost", "%s", CostString(cs[i], offset))]
    \o <<Log("blank", "", <<>>),
         Log("total", "Total: %.2f", FormatAmount(tot)),
         Log("blank", "", <<>>),
         Log("divider", "----", <<>>),
         Log("blank", "", <<>>),
         Log("header", "Grouped costs:", <<>>)>>
    \o [i \in 1..Len(gs) |-> Log("grouped", "%s", GroupedCostString(gs[i]))]

\* log.Print the lines and os.Exit(1)
Exit1(logged) ==
    /\ out' = out \o logged
    /\ exitCode' = 1
    /\ pc' = "exited"

\* a flag is missing or invalid: the diagnostic, flag.PrintDefaults, exit 1
UsageExit(msg) ==
    Exit1(<<Log("error", msg, <<>>),
            Log("usage", "flag.PrintDefaults", <<>>)>>)

\* a variant that logs the error and carries on
ReadFail_KeepGoing(fmt, arg) ==
    /\ costs' = costs
    /\ out' = Append(out, Log("error", fmt, arg))
    /\ exitCode' = exitCode
    /\ pc' = IF pc = "open" THEN "scan" ELSE pc

\* readCostsCSV returns (nil, err); main logs "Unable to read costs: " and
\* the error, and exits with status 1
ReadFail(fmt, arg) ==
    /\ costs' = <<>>
    /\ Exit1(<<Log("error", fmt, arg)>>)

\* main, up to the call of readCostsCSV
Main ==
    /\ pc = "main"
    /\ IF csv = ""
       THEN /\ UsageExit("You must specify a CSV file.")
            /\ UNCHANGED <<location, filterDuration>>
       ELSE IF locationString = ""
       THEN /\ UsageExit("You must specify a location.")
            /\ UNCHANGED <<location, filterDuration>>
       ELSE IF daysBack <= 0
       THEN /\ UsageExit("You must provide a number of days back >= 0.")
            /\ UNCHANGED <<location, filterDuration>>
       ELSE IF locationString \notin DOMAIN Zones
       THEN /\ Exit1(<<Log("error", "Invalid location: %s", <<>>)>>)
            /\ UNCHANGED <<location, filterDuration>>
       ELSE /\ location' = Zones[locationString]
            /\ filterDuration' = FilterDurationOf(daysBack)
            /\ pc' = "open"
            /\ UNCHANGED <<out, exitCode>>
    /\ UNCHANGED <<filterTime, idx, costs, sourceToAmount, total,
                   groupedCosts>>
    /\ UNCHANGED <<inputs, runNo, prevOut>>

\* readCostsCSV, up to its loop: open the file, compute the cutoff, log it
\* (the date in that line is not modelled)
ReadOpen ==
    /\ pc = "open"
    /\ IF ~FileExists(csv)
       THEN /\ ReadFail("Unable to read costs: Unable to open: %s: %s", <<>>)
            /\ UNCHANGED filterTime
       ELSE /\ filterTime' = FilterTimeOf(now, filterDuration)
            /\ out' = Append(out, Log("info", "Ignoring any entries < %s", <<>>))
            /\ pc' = "scan"
            /\ UNCHANGED <<costs, exitCode>>
    /\ UNCHANGED <<location, filterDuration, idx, sourceToAmount, total,
                   groupedCosts>>
    /\ UNCHANGED <<inputs, runNo, prevOut>>

\* one turn of readCostsCSV's loop, on the next line of the file
ScanLine ==
    /\ pc = "scan"
    /\ idx < Len(lines)
    /\ readErrAt # idx + 1
    /\ idx' = idx + 1
    /\ LET line   == lines[idx + 1]
           pieces == Split(line)
       IN  IF ~FieldCountOK(pieces)
           THEN ReadFail("Unable to read costs: Line missing expected number of fields: %s",
                         line)
           ELSE LET date     == pieces[1]
                    source   == pieces[2]
                    amount   == pieces[3]
                    note     == pieces[4]
                    costTime == ParseInLocation(date, location)
                IN  IF ~costTime.ok
                    THEN ReadFail("Unable to read costs: Unable to parse date: %s: %s",
                                  date)
                    ELSE IF Before(costTime.time, filterTime)
                    THEN UNCHANGED <<costs, out, exitCode, pc>>
                    ELSE LET amountFloat == ParseFloat(amount)
                         IN  IF ~amountFloat.ok
                             THEN ReadFail("Unable to read costs: Unable to parse amount: %s: %s",
                                           amount)
                             ELSE /\ costs' = Append(costs,
                                         [Time   |-> costTime.time,
                                          Source |-> source,
                                          Amount |-> amountFloat.val,
                                          Note   |-> note])
                                  /\ UNCHANGED <<out, exitCode, pc>>
    /\ UNCHANGED <<location, filterDuration, filterTime, sourceToAmount,
                   total, groupedCosts>>
    /\ UNCHANGED <<inputs, runNo, prevOut>>

\* the loop ends: the file is exhausted or a read failed
ScanEnd ==
    /\ pc = "scan"
    /\ idx = Len(lines) \/ readErrAt = idx + 1
    /\ IF readErrAt = idx + 1
       THEN ReadFail("Unable to read costs: Scanner error: %s", <<>>)
       ELSE /\ pc' = "tally"
            /\ UNCHANGED <<costs, out, exitCode>>
    /\ UNCHANGED <<location, filterDuration, filterTime, idx,
                   sourceToAmount, total, groupedCosts>>
    /\ UNCHANGED <<inputs, runNo, prevOut>>

\* main: tallyCosts and getTotal
Tally ==
    /\ pc = "tally"
    /\ sourceToAmount' = tallyCosts(costs)
    /\ total' = getTotal(costs)
    /\ pc' = "report"
    /\ UNCHANGED <<location, filterDuration, filterTime, idx, costs,
                   groupedCosts, out, exitCode>>
    /\ UNCHANGED <<inputs, runNo, prevOut>>

\* main: reportCosts, then the return from main (exit status 0). The costs
\* slice is sorted in place.
Report ==
    /\ pc = "report"
    /\ \E sorted \in SortCostByTime(costs) :
       \E ranged \in MapRangeOrders(sourceToAmount) :
       \E grouped \in SortGroupedCostByAmount(ranged) :
          /\ costs' = sorted
          /\ groupedCosts' = grouped
          /\ out' = out \o ReportLines(sorted, total, grouped, location)
    /\ pc' = "exited"
    /\ exitCode' = 0
    /\ UNCHANGED <<location, filterDuration, filterTime, idx,
                   sourceToAmount, total>>
    /\ UNCHANGED <<inputs, runNo, prevOut>>

\* the program is started again, with the same arguments, file and clock
Rerun ==
    /\ pc = "exited"
    /\ runNo < MaxRuns
    /\ runNo' = runNo + 1
    /\ prevOut' = out
    /\ pc' = "main"
    /\ location' = 0
    /\ filterDuration' = ZeroL(8)
    /\ filterTime' = ZeroL(12)
    /\ idx' = 0
    /\ costs' = <<>>
    /\ sourceToAmount' = <<>>
    /\ total' = 0
    /\ groupedCosts' = <<>>
    /\ out' = <<>>
    /\ exitCode' = -1
    /\ UNCHANGED inputs

Next ==
    \/ Main
    \/ ReadOpen
    \/ ScanLine
    \/ ScanEnd
    \/ Tally
    \/ Report
    \/ Rerun

(***************************************************************************)
(* The inputs drawn.                                                       *)
(***************************************************************************)
\* the UTC date of the runs
Day0 == DaysFromCivil(2024, 3, 2)

\* the text of the date k days before Day0
DateText(k) == FormatDate((Day0 - k) * 24, 0)

Line(fields) == Join(fields, <<",">>)

SrcA == <<"S", "t", "o", "r", "e", " ", "A">>
SrcLowerA == <<"S", "t", "o", "r", "e", " ", "a">>
SrcB == <<"S", "t", "o", "r", "e", " ", "B">>
Amt10 == <<"1", "0", ".", "0", "0">>
Amt5 == <<"5", ".", "0", "0">>
Amt5Short == <<"5">>
AmtTen == <<"t", "e", "n">>
NoteN == <<"n">>
BadDate == <<"2", "0", "2", "4", "-", "0", "2", "-", "3", "0">>

\* lines of the files the report is studied on; with --days-back 2 and the
\* clock on Day0, the dates 3 days back are older than the cutoff
ReportLineSet ==
    { Line(<<DateText(0), SrcA, Amt10, NoteN>>),
      Line(<<DateText(0), SrcB, Amt5, NoteN>>),
      Line(<<DateText(1), SrcA, Amt5Short, NoteN>>),
      Line(<<DateText(1), SrcLowerA, Amt5, NoteN>>),
      Line(<<DateText(3), SrcA, Amt10, NoteN>>),
      Line(<<DateText(3), SrcB, AmtTen, NoteN>>),
      Line(<<DateText(0), SrcA, AmtTen, NoteN>>),
      Line(<<DateText(0), SrcA, Amt10>>),
      Line(<<DateText(3), SrcA, Amt10, NoteN, NoteN>>),
      Line(<<BadDate, SrcA, Amt5, NoteN>>),
      <<>> }

\* lines of the files the cutoff is studied on: one per date
FilterLineSet ==
    { Line(<<DateText(k), SrcA, Amt5, NoteN>>) : k \in 0..(MaxDaysBack + 2) }

SeqsUpTo(S, n) == UNION {[1..k -> S] : k \in 0..n}

\* the last --days-back whose duration fits an int64 of nanoseconds, and the
\* first that does not
EdgeDaysBack == {106751, 106752}

InitRun ==
    /\ runNo = 1
    /\ prevOut = <<>>
    /\ pc = "main"
    /\ location = 0
    /\ filterDuration = ZeroL(8)
    /\ filterTime = ZeroL(12)
    /\ idx = 0
    /\ costs = <<>>
    /\ sourceToAmount = <<>>
    /\ total = 0
    /\ groupedCosts = <<>>
    /\ out = <<>>
    /\ exitCode = -1

\* valid arguments, the clock at noon UTC, files of all kinds of lines
InitReport ==
    /\ csv = "costs.csv"
    /\ locationString \in {"UTC", "America/Vancouver"}
    /\ daysBack = 2
    /\ now = Day0 * 24 + 12
    /\ lines \in SeqsUpTo(ReportLineSet, MaxLines)
    /\ readErrAt = 0

\* valid arguments, every clock, zone and --days-back, files of valid lines
InitFilter ==
    /\ csv = "costs.csv"
    /\ locationString \in DOMAIN Zones
    /\ daysBack \in (1..MaxDaysBack) \cup EdgeDaysBack
    /\ now \in {Day0 * 24 + h : h \in {2, 12, 20}}
    /\ lines \in SeqsUpTo(FilterLineSet, 2)
    /\ readErrAt = 0

\* arguments that fail validation, a location that does not load, a file
\* that does not open
InitArgs ==
    /\ csv \in {"", "costs.csv", "nofile.csv"}
    /\ locationString \in {"", "UTC", "Mars/Olympus"}
    /\ daysBack \in {-1, 0, 2}
    /\ now = Day0 * 24 + 12
    /\ lines \in SeqsUpTo({Line(<<DateText(0), SrcA, Amt10, NoteN>>)}, 1)
    /\ readErrAt = 0

\* a read of the file fails
InitReadErr ==
    /\ csv = "costs.csv"
    /\ locationString = "UTC"
    /\ daysBack = 2
    /\ now = Day0 * 24 + 12
    /\ lines \in SeqsUpTo({Line(<<DateText(0), SrcA, Amt10, NoteN>>),
                           Line(<<DateText(0), SrcA, AmtTen, NoteN>>)}, 2)
    /\ readErrAt \in 1..(Len(lines) + 1)

Init ==
    /\ InitReport \/ InitFilter \/ InitArgs \/ InitReadErr
    /\ InitRun

Spec == Init /\ [][Next]_vars


(***************************************************************************)
(* Vocabulary of the properties.                                           *)
(***************************************************************************)
Succeeded == pc = "exited" /\ exitCode = 0

Failed == pc = "exited" /\ exitCode = 1

\* readCostsCSV has returned its costs
ReadDone == pc \in {"tally", "report"} \/ Succeeded

ArgsValid == csv # "" /\ locationString \in DOMAIN Zones /\ daysBack > 0

RECURSIVE LinesOfKind(_, _)
LinesOfKind(s, kinds) ==
    IF s = <<>> THEN <<>>
    ELSE (IF Head(s).kind \in kinds THEN <<Head(s)>> ELSE <<>>)
             \o LinesOfKind(Tail(s), kinds)

ReportKinds == {"header", "cost", "blank", "total", "divider", "grouped"}

LastLogged == out[Len(out)]

\* the sum of the amounts of the costs at the indices I
RECURSIVE SumAt(_, _)
SumAt(cs, I) ==
    IF I = {} THEN 0
    ELSE LET i == CHOOSE k \in I : TRUE
         IN  cs[i].Amount + SumAt(cs, I \ {i})

RECURSIVE SumMap(_, _)
SumMap(m, K) ==
    IF K = {} THEN 0
    ELSE LET k == CHOOSE x \in K : TRUE
         IN  m[k].Amount + SumMap(m, K \ {k})

Sources(cs) == {cs[i].Source : i \in DOMAIN cs}

WithSource(cs, s) == {i \in DOMAIN cs : cs[i].Source = s}

\* the calendar day, at the location, of an instant
LocalDay(t) == (t + location) \div 24

\* the pieces of line i and its date, as the program reads them
PiecesOf(i) == Split(lines[i])

DateOf(i) == ParseInLocation(PiecesOf(i)[1], location)

\* "today": the date at the location, and the UTC date
TodayReadings == {LocalDay(now), now \div 24}

(***************************************************************************)
(* C1. A record dated exactly today - N days is included and one dated     *)
(* exactly today - (N+1) days is excluded, for every instant, location and *)
(* days-back N, the record's date being midnight of that day at the        *)
(* location. "Today" is read both as the date at the location and as the   *)
(* UTC date: the statement is made of the instants where the two agree.    *)
(***************************************************************************)
FilterBoundary ==
    ReadDone =>
        \A i \in 1..Len(lines) :
            DateOf(i).ok =>
                /\ (\A today \in TodayReadings :
                       LocalDay(DateOf(i).time) = today - daysBack)
                       => \E j \in DOMAIN costs : costs[j].Time = DateOf(i).time
                /\ (\A today \in TodayReadings :
                       LocalDay(DateOf(i).time) = today - daysBack - 1)
                       => \A j \in DOMAIN costs : costs[j].Time # DateOf(i).time

(***************************************************************************)
(* C2. A line of four fields with a valid date and an amount that does not *)
(* parse makes the run abort with an error naming the amount, whatever the *)
(* line's date: such a line is never skipped.                              *)
(***************************************************************************)
BadAmountAborts ==
    \A i \in 1..idx :
        ( /\ Len(PiecesOf(i)) = 4
          /\ DateOf(i).ok
          /\ ~ParseFloat(PiecesOf(i)[3]).ok )
        => /\ i = idx
           /\ Failed
           /\ LastLogged =
                  Log("error",
                      "Unable to read costs: Unable to parse amount: %s: %s",
                      PiecesOf(i)[3])

(***************************************************************************)
(* C3. The per-record listing is the post-filter records sorted ascending  *)
(* by date, records of the same date keeping their order in the file.      *)
(***************************************************************************)
ListingStable ==
    [][ (pc = "report" /\ pc' = "exited") =>
           LET n == Len(costs)
           IN  \E f \in [1..n -> 1..n] :
                  /\ \A i, j \in 1..n : i # j => f[i] # f[j]
                  /\ \A i, j \in 1..n :
                        i < j =>
                           \/ costs[f[i]].Time < costs[f[j]].Time
                           \/ costs[f[i]].Time = costs[f[j]].Time /\ f[i] < f[j]
                  /\ LinesOfKind(out', {"cost"}) =
                        [i \in 1..n |->
                            Log("cost", "%s", CostString(costs[f[i]], location))]
      ]_vars

(***************************************************************************)
(* C4. Two runs on the same file with the same arguments and the same      *)
(* clock log the same lines in the same order.                             *)
(***************************************************************************)
Deterministic ==
    (runNo > 1 /\ pc = "exited") => out = prevOut

(***************************************************************************)
(* C5. The grouped listing has exactly one entry per distinct source name  *)
(* (compared exactly) of the post-filter records, each with the source's   *)
(* accumulated amount, in non-increasing order of amount.                  *)
(***************************************************************************)
GroupedListing ==
    Succeeded =>
        LET g == LinesOfKind(out, {"grouped"})
            n == Len(g)
        IN  /\ n = Cardinality(Sources(costs))
            /\ \A s \in Sources(costs) :
                  Cardinality({i \in 1..n :
                      g[i].arg = s \o <<":", " ">>
                          \o FormatAmount(SumAt(costs, WithSource(costs, s)))}) = 1
            /\ Len(groupedCosts) = n
            /\ \A i \in 1..n : g[i].arg = GroupedCostString(groupedCosts[i])
            /\ \A i, j \in 1..n :
                  i < j => groupedCosts[i].Amount >= groupedCosts[j].Amount

\* two sources differing only in case, one of them seen twice, and
\* different totals
GroupedListingWitness ==
    /\ Succeeded
    /\ Len(groupedCosts) = 2
    /\ Len(costs) = 3
    /\ groupedCosts[1].Amount > groupedCosts[2].Amount
    /\ Sources(costs) = {SrcA, SrcLowerA}

(***************************************************************************)
(* C6. The per-source totals of tallyCosts sum to the total of getTotal,   *)
(* which is the sum of every record's amount; each record is counted in    *)
(* the total of its source and in no other.                                *)
(***************************************************************************)
TotalsAgree ==
    (pc = "report" \/ Succeeded) =>
        /\ total = SumAt(costs, DOMAIN costs)
        /\ DOMAIN sourceToAmount = Sources(costs)
        /\ \A s \in DOMAIN sourceToAmount :
              /\ sourceToAmount[s].Name = s
              /\ sourceToAmount[s].Amount = SumAt(costs, WithSource(costs, s))
        /\ SumMap(sourceToAmount, DOMAIN sourceToAmount) = total

\* three records over two sources
TotalsAgreeWitness ==
    /\ pc = "report"
    /\ Len(costs) = 3
    /\ Cardinality(DOMAIN sourceToAmount) = 2
    /\ \E s \in DOMAIN sourceToAmount : sourceToAmount[s].Amount # total

(***************************************************************************)
(* C7. A line that does not split into exactly 4 fields makes the run      *)
(* abort with an error carrying the line, whatever its first field and     *)
(* whatever the cutoff: it is never skipped.                               *)
(***************************************************************************)
FieldCountAborts ==
    /\ \A i \in 1..idx :
          Len(PiecesOf(i)) # 4
          => /\ i = idx
             /\ Failed
             /\ LastLogged =
                    Log("error",
                        "Unable to read costs: Line missing expected number of fields: %s",
                        lines[i])
    /\ ReadDone => \A i \in 1..Len(lines) : Len(PiecesOf(i)) = 4

\* a five-field line, after other lines, whose first field is a date older
\* than the cutoff
FieldCountAbortsWitness ==
    /\ Failed
    /\ idx >= 2
    /\ Len(PiecesOf(idx)) = 5
    /\ DateOf(idx).ok
    /\ Before(DateOf(idx).time, filterTime)
    /\ LastLogged.arg = lines[idx]

(***************************************************************************)
(* C8. A run that fails exits with status 1 after one diagnostic and logs  *)
(* no part of the report; the report is logged only once every line has    *)
(* been read without error, and that run exits with status 0.              *)
(***************************************************************************)
NoPartialReport ==
    /\ pc = "exited" <=> exitCode \in {0, 1}
    /\ exitCode = 1 =>
          /\ LinesOfKind(out, ReportKinds) = <<>>
          /\ Len(LinesOfKind(out, {"error"})) = 1
    /\ LinesOfKind(out, ReportKinds) # <<>> =>
          /\ Succeeded
          /\ idx = Len(lines)
          /\ LinesOfKind(out, {"error"}) = <<>>
    /\ Succeeded =>
          LinesOfKind(out, ReportKinds) =
              ReportLines(costs, total, groupedCosts, location)

\* a third line fails on its amount after two lines were accepted or skipped
NoPartialReportWitness ==
    /\ Failed
    /\ idx = 3
    /\ LastLogged.arg = AmtTen
    /\ Len(out) = 2

\* the month listing the report would carry
MonthKey(c) ==
    LET d == CivilFromDays(LocalDay(c.Time)) IN <<d.y, d.m>>

MonthKeys == {MonthKey(costs[i]) : i \in DOMAIN costs}

MonthLine(k) ==
    Itoa(k[1], 4) \o <<"-">> \o Itoa(k[2], 2) \o <<":", " ">>
        \o FormatAmount(SumAt(costs, {i \in DOMAIN costs : MonthKey(costs[i]) = k}))

(***************************************************************************)
(* C9. The report has a grouped-by-month listing: one entry per distinct   *)
(* (year, month) of the post-filter records, with the sum of that month's  *)
(* amounts, in ascending order of year and then month.                     *)
(***************************************************************************)
MonthListing ==
    Succeeded =>
        \E f \in [MonthKeys -> 1..Len(out)] :
            /\ \A k \in MonthKeys : out[f[k]].arg = MonthLine(k)
            /\ \A k1, k2 \in MonthKeys :
                  (k1[1] < k2[1] \/ (k1[1] = k2[1] /\ k1[2] < k2[2]))
                  => f[k1] < f[k2]

(***************************************************************************)
(* C10. For every days-back that passes validation the filter duration     *)
(* does not wrap: it is positive and is exactly days-back days, so the     *)
(* cutoff is never later than the clock and a larger days-back never       *)
(* excludes a record that a smaller one includes.                          *)
(***************************************************************************)
FilterDurationExact ==
    (pc # "main" /\ ArgsValid) =>
        /\ ~IsNegL(filterDuration)
        /\ filterDuration # ZeroL(8)
        /\ SignExtend(filterDuration, 12) =
               MulL(TimeWide(daysBack * 24), SignExtend(Hour, 12))
        /\ (pc # "open" /\ FileExists(csv)) => ~LessL(TimeNs(now), filterTime)
        /\ \A n \in (1..MaxDaysBack) \cup EdgeDaysBack :
           \A i \in 1..idx :
              ( /\ n < daysBack
                /\ Len(PiecesOf(i)) = 4
                /\ DateOf(i).ok
                /\ ~Before(DateOf(i).time, FilterTimeOf(now, FilterDurationOf(n))) )
              => ~Before(DateOf(i).time, filterTime)

=============================================================================
